---- MODULE Spec2Model ----
(***************************************************************************)
(* Model of the TestRunner of src/runner/runner.ts: the run registry       *)
(* (testRunsByFile), the one-shot request marker (simpleTestRunRequest),   *)
(* the continuous registrations (continuousRequests), the commands         *)
(* runTests / runCoverage / cancellation / dispose and the event handlers  *)
(* watcher-rerun, task-update, collected, finished and console-log.        *)
(*                                                                         *)
(* Spec explores the commands and the events together, SpecFinished the    *)
(* interleavings of suspended finished handlers, and SpecFunctions the     *)
(* resolver and the result mapper on their inputs.                         *)
(*                                                                         *)
(* A path is the sequence of its '/'-separated segments, so that a path    *)
(* ends in '/' exactly when its last segment is the empty string.          *)
(***************************************************************************)
EXTENDS Integers, Sequences, FiniteSets, TLC

\* ------------------------------------------------------------------------
\* Bounds of the model
\* ------------------------------------------------------------------------
MaxRequests == 2
MaxRuns == 2
MaxPending == 2
MaxSteps == 5
MaxFinishedSteps == 6
MaxSelection == 3
MaxErrors == 2

\* ------------------------------------------------------------------------
\* Generic helpers
\* ------------------------------------------------------------------------
Range(s) == {s[i] : i \in 1..Len(s)}

RECURSIVE Flat(_)
Flat(ss) == IF ss = <<>> THEN <<>> ELSE Head(ss) \o Flat(Tail(ss))

RECURSIVE Join(_, _)
Join(parts, sep) ==
  IF parts = <<>> THEN <<>>
  ELSE IF Len(parts) = 1 THEN <<parts[1]>>
  ELSE <<parts[1], sep>> \o Join(Tail(parts), sep)

RECURSIVE Dedupe(_)
Dedupe(s) ==
  IF s = <<>> THEN <<>>
  ELSE LET init == Dedupe(SubSeq(s, 1, Len(s) - 1))
           x == s[Len(s)]
       IN IF x \in Range(init) THEN init ELSE Append(init, x)

RemoveAt(s, i) == SubSeq(s, 1, i - 1) \o SubSeq(s, i + 1, Len(s))

\* ------------------------------------------------------------------------
\* The explorer tree (TestTree / TestData), a fixed collected workspace:
\*   W (folder /w) -> D (folder /w/d) -> A (file /w/d/a) -> S1 (suite) -> T1
\*                 -> B (file /w/b) -> T2
\* ------------------------------------------------------------------------
Items == {"W", "D", "A", "S1", "T1", "B", "T2"}

ItemKind(i) ==
  CASE i \in {"W", "D"} -> "folder"
    [] i \in {"A", "B"} -> "file"
    [] i = "S1" -> "suite"
    [] OTHER -> "case"

Children(i) ==
  CASE i = "W" -> <<"D", "B">>
    [] i = "D" -> <<"A">>
    [] i = "A" -> <<"S1">>
    [] i = "S1" -> <<"T1">>
    [] i = "B" -> <<"T2">>
    [] OTHER -> <<>>

\* the file item a suite or a case belongs to (data.file)
FileOf(i) ==
  CASE i \in {"A", "S1", "T1"} -> "A"
    [] OTHER -> "B"

\* test.uri.fsPath; a suite or a case carries the uri of its file
FsPath(i) ==
  CASE i = "W" -> <<"w">>
    [] i = "D" -> <<"w", "d">>
    [] i \in {"A", "S1", "T1"} -> <<"w", "d", "a">>
    [] OTHER -> <<"w", "b">>

PathA == FsPath("A")
PathB == FsPath("B")
FilePaths == {PathA, PathB}
FolderMarker(i) == Append(FsPath(i), "")
EventPaths == FilePaths \cup {FolderMarker("W"), FolderMarker("D")}

Basename(p) == IF p = <<>> THEN "" ELSE p[Len(p)]
Dirname(p) == IF p = <<>> THEN <<>> ELSE SubSeq(p, 1, Len(p) - 1)

\* ------------------------------------------------------------------------
\* Requests.  A request is [include, continuous]; include is
\* [present |-> FALSE, items |-> <<>>] when the request has no include.
\* A request reference is NoRequest (null), Req(n) (the n-th request of
\* RequestTable) or Merged(..) (a request createContinuousRequest constructs).
\* ------------------------------------------------------------------------
NoInclude == [present |-> FALSE, items |-> <<>>]
Incl(items) == [present |-> TRUE, items |-> items]

Request(include, continuous) == [include |-> include, continuous |-> continuous]

\* the request objects the editor hands to runTests, each at most once; a
\* request is known by its place in this table
RequestTable ==
  <<Request(Incl(<<>>), FALSE), Request(Incl(<<"D">>), FALSE),
    Request(NoInclude, TRUE), Request(Incl(<<"D">>), TRUE),
    Request(Incl(<<"T2", "B">>), TRUE)>>
RequestIds == 1..Len(RequestTable)

NoRequest == [kind |-> "none", id |-> 0, include |-> NoInclude, primary |-> 0]
Req(n) == [kind |-> "req", id |-> n, include |-> RequestTable[n].include, primary |-> 0]
Merged(n, include, primary) ==
  [kind |-> "merged", id |-> n, include |-> include, primary |-> primary]

NoRun == 0

VARIABLES
  pc,                    \* pc[n]: where the runTests call of request n is
  cancelled,             \* cancelled[n]: the token of request n has fired
  continuousRequests,    \* Set<TestRunRequest>, in insertion order
  simpleTestRunRequest,  \* request reference or NoRequest (null)
  testRunsByFile,        \* Map<string, TestRun>: path -> run id
  runs,                  \* the runs made by controller.createTestRun
  watch,                 \* watch filter in force at the api
  pending,               \* onFinished handlers suspended in reportCoverage
  disposed,              \* the dispose callback has run
  last,                  \* the operation that ran last, and what it issued
  steps                  \* the number of commands and events handled so far

vars == <<pc, cancelled, continuousRequests, simpleTestRunRequest,
          testRunsByFile, runs, watch, pending, disposed, last, steps>>

\* ------------------------------------------------------------------------
\* Pattern/File resolver
\* ------------------------------------------------------------------------
\* the name-matching expression of a test case
NamePattern(i) == <<"^", i, "$">>

\* 'getTestNamePattern' in data: of the kinds of test data the case alone
\* carries the capability
HasNamePattern(i) == ItemKind(i) = "case"

\* getTestFiles: one path per selected item, a folder with a trailing '/',
\* duplicates removed in first-occurrence order (Array.from(new Set(..)))
GetTestFiles(tests) ==
  Dedupe([k \in 1..Len(tests) |->
            IF ItemKind(tests[k]) = "folder" THEN FolderMarker(tests[k])
            ELSE FsPath(tests[k])])

\* FormatTestPattern that asks every selected item for an expression
FormatTestPatternOfAllItems(tests) ==
  IF Len(tests) = 0 THEN [present |-> FALSE, text |-> <<>>]
  ELSE [present |-> TRUE,
        text |-> Flat(Join([k \in 1..Len(tests) |-> NamePattern(tests[k])], <<"|">>))]

\* formatTestPattern: [present |-> FALSE] is undefined
FormatTestPattern(tests) ==
  LET patterns == SelectSeq(tests, HasNamePattern)
  IN IF Len(patterns) = 0 THEN [present |-> FALSE, text |-> <<>>]
     ELSE [present |-> TRUE,
           text |-> Flat(Join([k \in 1..Len(patterns) |-> NamePattern(patterns[k])],
                              <<"|">>))]

\* ------------------------------------------------------------------------
\* Run registry helpers
\* ------------------------------------------------------------------------
EmptyMap == [p \in {} |-> NoRun]
MapGet(m, k) == IF k \in DOMAIN m THEN m[k] ELSE NoRun
MapSet(m, k, v) == [p \in DOMAIN m \cup {k} |-> IF p = k THEN v ELSE m[p]]
MapDelete(m, k) == [p \in DOMAIN m \ {k} |-> m[p]]

\* getTestRunByData: the run registered for the file of a test data
GetTestRunByData(reg, i) ==
  IF ItemKind(i) = "folder" THEN NoRun
  ELSE IF ItemKind(i) = "file" THEN MapGet(reg, FsPath(i))
  ELSE MapGet(reg, FsPath(FileOf(i)))

\* isFileIncluded: some item of include is the file, a case or suite of the
\* file, or a folder with the file below it
RECURSIVE IsFileIncluded(_, _)
IsFileIncluded(file, include) ==
  \E k \in 1..Len(include) :
    LET item == include[k]
    IN CASE ItemKind(item) = "file" -> FsPath(item) = file
         [] ItemKind(item) = "folder" -> IsFileIncluded(file, Children(item))
         [] OTHER -> FsPath(FileOf(item)) = file

\* getFiles of getTestFilesInFolder: the file paths below a folder item
RECURSIVE GetFiles(_)
GetFiles(folder) ==
  Flat([k \in 1..Len(Children(folder)) |->
          LET item == Children(folder)[k]
          IN IF ItemKind(item) = "file" THEN <<FsPath(item)>>
             ELSE IF ItemKind(item) = "folder" THEN GetFiles(item)
             ELSE <<>>])

\* getTestFilesInFolder: tree.getOrCreateFolderTestItem makes an empty folder
\* for a path the tree does not know
GetTestFilesInFolder(path) ==
  IF \E i \in Items : ItemKind(i) = "folder" /\ FolderMarker(i) = path
  THEN GetFiles(CHOOSE i \in Items : ItemKind(i) = "folder" /\ FolderMarker(i) = path)
  ELSE <<>>

\* tree.getFileTestItems and the enqueue closure of startTestRun
RECURSIVE Descendants(_)
Descendants(i) ==
  {i} \cup UNION {Descendants(Children(i)[k]) : k \in 1..Len(Children(i))}

Enqueued(file) ==
  UNION {Descendants(i) : i \in {j \in Items : ItemKind(j) = "file" /\ FsPath(j) = file}}

\* !request.include?.length
HasNoInclude(include) == ~include.present \/ Len(include.items) = 0

IncludeOf(ref) == ref.include

\* createContinuousRequest; fresh is the identity of the request object it
\* constructs
CreateContinuousRequest(cont, fresh) ==
  IF Len(cont) = 0 THEN NoRequest
  ELSE IF \E k \in 1..Len(cont) : HasNoInclude(RequestTable[cont[k]].include)
  THEN Req(cont[CHOOSE k \in 1..Len(cont) :
                  /\ HasNoInclude(RequestTable[cont[k]].include)
                  /\ \A j \in 1..(k - 1) : ~HasNoInclude(RequestTable[cont[j]].include)])
  ELSE Merged(fresh,
              Incl(Flat([k \in 1..Len(cont) |-> RequestTable[cont[k]].include.items])),
              cont[1])

NewRun(file, request) ==
  [file |-> file, request |-> request,
   name |-> <<Basename(Dirname(file)), Basename(file)>>,
   enqueued |-> Enqueued(file), ended |-> FALSE]

\* request.include && !this.isFileIncluded(file, request.include)
Skipped(file, include) == include.present /\ ~IsFileIncluded(file, include.items)

\* EffectiveRequest with the continuous registrations before the one-shot marker
EffectiveRequestContinuousFirst(primaryRequest, simple, cont, fresh) ==
  IF primaryRequest.kind # "none" THEN primaryRequest
  ELSE IF CreateContinuousRequest(cont, fresh).kind # "none"
  THEN CreateContinuousRequest(cont, fresh)
  ELSE simple

\* the request startTestRun works for
\*   primaryRequest || this.simpleTestRunRequest || this.createContinuousRequest()
EffectiveRequest(primaryRequest, simple, cont, fresh) ==
  IF primaryRequest.kind # "none" THEN primaryRequest
  ELSE IF simple.kind # "none" THEN simple
  ELSE CreateContinuousRequest(cont, fresh)

\* file[file.length - 1] === '/'
IsFolderMarker(file) == file # <<>> /\ file[Len(file)] = ""

\* StartFile without the check for a run the file already has
StartFileNoRunCheck(file, request, st) ==
  IF Skipped(file, IncludeOf(request)) THEN st
  ELSE [reg |-> MapSet(st.reg, file, Len(st.runs) + 1),
        runs |-> Append(st.runs, NewRun(file, request))]

\* the body of the loop of startTestRun for a file that is no folder marker;
\* st is [reg, runs], the registry and the runs created so far
StartFile(file, request, st) ==
  IF Skipped(file, IncludeOf(request)) THEN st
  ELSE IF MapGet(st.reg, file) # NoRun THEN st
  ELSE [reg |-> MapSet(st.reg, file, Len(st.runs) + 1),
        runs |-> Append(st.runs, NewRun(file, request))]

\* startTestRun and its loop over the files
RECURSIVE StartTestRun(_, _, _, _, _)
RECURSIVE StartLoop(_, _, _, _, _)
StartLoop(files, request, simple, cont, st) ==
  IF files = <<>> THEN st
  ELSE
    LET file == Head(files)
        next ==
          IF IsFolderMarker(file)
          THEN StartTestRun(GetTestFilesInFolder(file), request, simple, cont, st)
          ELSE StartFile(file, request, st)
    IN StartLoop(Tail(files), request, simple, cont, next)

StartTestRun(files, primaryRequest, simple, cont, st) ==
  LET request == EffectiveRequest(primaryRequest, simple, cont, Len(st.runs) + 1)
  IN IF request.kind = "none" THEN st
     ELSE StartLoop(files, request, simple, cont, st)

\* EndTestRun without the deletion of the registry entry
EndTestRunKeepsEntry(run, st) ==
  [reg |-> st.reg, runs |-> [st.runs EXCEPT ![run].ended = TRUE]]

\* endTestRun: drop the entry of the run's file, then run.end()
EndTestRun(run, st) ==
  [reg |-> MapDelete(st.reg, st.runs[run].file),
   runs |-> [st.runs EXCEPT ![run].ended = TRUE]]

\* ------------------------------------------------------------------------
\* Result mapper
\* ------------------------------------------------------------------------
\* Tasks of the runner.  X is a task the tree does not track.
TaskIds == {"A", "S1", "T1", "B", "T2", "X"}
Tracked(id) == id \in Items
\* Task.type: a file is a suite (vitest File extends Suite)
TaskType(id) == IF id \in {"A", "B", "S1"} THEN "suite" ELSE "test"

\* getTasks of @vitest/ws-client: every task of the files, parents first
RECURSIVE GetTasks(_)
GetTasks(tasks) ==
  Flat([k \in 1..Len(tasks) |->
          IF TaskType(tasks[k]) = "test" THEN <<tasks[k]>>
          ELSE <<tasks[k]>> \o GetTasks(Children(tasks[k]))])

\* an error of a task result; the first one carries no stack
Err(n) ==
  IF n = 1 THEN [message |-> <<"m1">>, stack |-> <<>>]
  ELSE [message |-> <<"m2">>, stack |-> <<"s2">>]
NoErrors == [present |-> FALSE, list |-> <<>>]
Errors(list) == [present |-> TRUE, list |-> list]
Duration == 3

NoResult == [present |-> FALSE, state |-> "", errors |-> NoErrors, duration |-> 0]
Result(state, errors) ==
  [present |-> TRUE, state |-> state, errors |-> errors, duration |-> Duration]

Results ==
  {NoResult} \cup
  {Result(state, NoErrors) :
     state \in {"pass", "skip", "todo", "only", "run", "fail", "queued"}} \cup
  {Result("fail", Errors(<<Err(1)>>)), Result("fail", Errors(<<Err(1), Err(2)>>))}

NoText == [set |-> FALSE, text |-> <<>>]

Report(run, item, kind, messages, duration, error) ==
  [run |-> run, item |-> item, kind |-> kind, messages |-> messages,
   duration |-> duration, error |-> error]

\* new vscode.TestMessage(err.stack || err.message)
SuiteMessage(err) == IF err.stack # <<>> THEN err.stack ELSE err.message
\* testMessageForTestError: the message text of the error
LeafMessage(err) == err.message

\* MarkResult without the cases 'only' and 'run'
MarkResultRunUnreported(testRun, test, result, taskType) ==
  IF ~result.present THEN <<Report(testRun, test, "started", <<>>, 0, NoText)>>
  ELSE CASE result.state = "fail" ->
              LET errors == [k \in 1..Len(result.errors.list) |->
                               LeafMessage(result.errors.list[k])]
              IN <<Report(testRun, test, "failed", errors, result.duration, NoText)>>
         [] result.state = "pass" ->
              <<Report(testRun, test, "passed", <<>>, result.duration, NoText)>>
         [] result.state \in {"todo", "skip"} ->
              <<Report(testRun, test, "skipped", <<>>, 0, NoText)>>
         [] OTHER -> <<>>

\* markResult: the reports it makes on testRun, in order; taskType is "none"
\* when the caller passes no task
MarkResult(testRun, test, result, taskType) ==
  IF ~result.present THEN <<Report(testRun, test, "started", <<>>, 0, NoText)>>
  ELSE CASE result.state = "fail" ->
              IF taskType = "suite"
              THEN IF ~result.errors.present THEN <<>>
                   ELSE LET errors == [k \in 1..Len(result.errors.list) |->
                                         SuiteMessage(result.errors.list[k])]
                        IN <<Report(testRun, test, "errored", errors, result.duration,
                                    [set |-> TRUE, text |-> Flat(Join(errors, <<"\n">>))])>>
              ELSE LET errors == [k \in 1..Len(result.errors.list) |->
                                    LeafMessage(result.errors.list[k])]
                   IN <<Report(testRun, test, "failed", errors, result.duration, NoText)>>
         [] result.state = "pass" ->
              <<Report(testRun, test, "passed", <<>>, result.duration, NoText)>>
         [] result.state \in {"todo", "skip"} ->
              <<Report(testRun, test, "skipped", <<>>, 0, NoText)>>
         [] result.state \in {"only", "run"} ->
              <<Report(testRun, test, "started", <<>>, 0, NoText)>>
         [] OTHER -> <<>>

\* ------------------------------------------------------------------------
\* Calls issued to the api and the tree
\* ------------------------------------------------------------------------
NoPattern == [present |-> FALSE, text |-> <<>>]
Call(op, all, files, pattern) ==
  [op |-> op, all |-> all, files |-> files, pattern |-> pattern]
SimpleCall(op) == Call(op, FALSE, <<>>, NoPattern)

\* the watch the api runs: none, everything, or files with a pattern
NoWatch == [active |-> FALSE, all |-> FALSE, files |-> <<>>, pattern |-> NoPattern]
WatchAll == [active |-> TRUE, all |-> TRUE, files |-> <<>>, pattern |-> NoPattern]
WatchOf(files, pattern) ==
  [active |-> TRUE, all |-> FALSE, files |-> files, pattern |-> pattern]

Last(op, req, files, reports, calls) ==
  [op |-> op, req |-> req, files |-> files, reports |-> reports, calls |-> calls,
   input |-> <<>>]

\* the record of an event handler: input is the payload the event carried
LastOf(op, input, reports, calls) ==
  [Last(op, 0, <<>>, reports, calls) EXCEPT !.input = input]

Init ==
  /\ pc = [n \in RequestIds |-> "idle"]
  /\ cancelled = [n \in RequestIds |-> FALSE]
  /\ continuousRequests = <<>>
  /\ simpleTestRunRequest = NoRequest
  /\ testRunsByFile = EmptyMap
  /\ runs = <<>>
  /\ watch = NoWatch
  /\ pending = <<>>
  /\ disposed = FALSE
  /\ last = Last("init", 0, <<>>, <<>>, <<>>)
  /\ steps = 0

\* ------------------------------------------------------------------------
\* Commands
\* ------------------------------------------------------------------------
\* watchContinuousTests, from the registration to the watchTests call
WatchContinuousTests(n) ==
  LET request == RequestTable[n]
      cont == IF n \in Range(continuousRequests) THEN continuousRequests
              ELSE Append(continuousRequests, n)
      include == Flat([k \in 1..Len(cont) |-> RequestTable[cont[k]].include.items])
      files == GetTestFiles(include)
      testNamePatern == FormatTestPattern(include)
  IN /\ continuousRequests' = cont
     /\ pc' = [pc EXCEPT ![n] = "watching"]
     /\ IF HasNoInclude(request.include)
        THEN /\ watch' = WatchAll
             /\ last' = Last("runTests", n, <<>>, <<>>,
                             <<Call("watchTests", TRUE, <<>>, NoPattern)>>)
        ELSE /\ watch' = WatchOf(files, testNamePatern)
             /\ last' = Last("runTests", n, <<>>, <<>>,
                             <<Call("watchTests", FALSE, files, testNamePatern)>>)
     /\ UNCHANGED simpleTestRunRequest

\* runTests of a one-shot request, up to the await of api.runFiles
RunSimpleTests(n) ==
  LET tests == RequestTable[n].include.items
  IN /\ simpleTestRunRequest' = Req(n)
     /\ pc' = [pc EXCEPT ![n] = "awaiting"]
     /\ last' = Last("runTests", n, <<>>, <<>>,
                     IF Len(tests) = 0
                     THEN <<Call("runFiles", TRUE, <<>>, NoPattern)>>
                     ELSE <<Call("runFiles", FALSE, GetTestFiles(tests),
                                 FormatTestPattern(tests))>>)
     /\ UNCHANGED <<continuousRequests, watch>>

Issued == {n \in RequestIds : pc[n] # "idle"}

\* runTests(request, token) with request n and a token that has not fired
RunTests(n) ==
  /\ pc[n] = "idle"
  /\ Cardinality(Issued) < MaxRequests
  /\ IF RequestTable[n].continuous
     THEN WatchContinuousTests(n)
     ELSE RunSimpleTests(n)
  /\ UNCHANGED <<cancelled, testRunsByFile, runs, pending, disposed>>

\* runCoverage up to the await of api.enableCoverage
RunCoverage(n) ==
  /\ pc[n] = "idle"
  /\ Cardinality(Issued) < MaxRequests
  /\ pc' = [pc EXCEPT ![n] = "enabling"]
  /\ last' = Last("runCoverage", n, <<>>, <<>>, <<SimpleCall("enableCoverage")>>)
  /\ UNCHANGED <<cancelled, continuousRequests, simpleTestRunRequest, testRunsByFile,
                 runs, watch, pending, disposed>>

\* api.enableCoverage resolves: runCoverage goes on with runTests
EnableCoverageReturn(n) ==
  /\ pc[n] = "enabling"
  /\ IF RequestTable[n].continuous
     THEN WatchContinuousTests(n)
     ELSE RunSimpleTests(n)
  /\ UNCHANGED <<cancelled, testRunsByFile, runs, pending, disposed>>

\* EnableCoverageFail that goes on with runTests after the error was shown
EnableCoverageFailRuns(n) ==
  LET request == RequestTable[n]
      tests == request.include.items
  IN /\ pc[n] = "enabling"
     /\ IF request.continuous
        THEN /\ continuousRequests' = Append(continuousRequests, n)
             /\ pc' = [pc EXCEPT ![n] = "watching"]
             /\ watch' = WatchAll
             /\ last' = Last("enableCoverageFail", n, <<>>, <<>>,
                             <<SimpleCall("showVitestError"),
                               Call("watchTests", TRUE, <<>>, NoPattern)>>)
             /\ UNCHANGED simpleTestRunRequest
        ELSE /\ simpleTestRunRequest' = Req(n)
             /\ pc' = [pc EXCEPT ![n] = "awaiting"]
             /\ last' = Last("enableCoverageFail", n, <<>>, <<>>,
                             <<SimpleCall("showVitestError"),
                               Call("runFiles", FALSE, GetTestFiles(tests),
                                    FormatTestPattern(tests))>>)
             /\ UNCHANGED <<continuousRequests, watch>>
     /\ UNCHANGED <<cancelled, testRunsByFile, runs, pending, disposed>>

\* api.enableCoverage rejects: runCoverage shows the error and returns
EnableCoverageFail(n) ==
  /\ pc[n] = "enabling"
  /\ pc' = [pc EXCEPT ![n] = "coverageFailed"]
  /\ last' = Last("enableCoverageFail", n, <<>>, <<>>, <<SimpleCall("showVitestError")>>)
  /\ UNCHANGED <<cancelled, continuousRequests, simpleTestRunRequest, testRunsByFile,
                 runs, watch, pending, disposed>>

\* api.runFiles resolves: runTests clears the marker and returns
RunFilesReturn(n) ==
  /\ pc[n] = "awaiting"
  /\ pc' = [pc EXCEPT ![n] = "returned"]
  /\ simpleTestRunRequest' = NoRequest
  /\ last' = Last("runFilesReturn", n, <<>>, <<>>, <<>>)
  /\ UNCHANGED <<cancelled, continuousRequests, testRunsByFile, runs,
                 watch, pending, disposed>>

\* api.runFiles rejects: the await throws and runTests rejects with it
RunFilesFail(n) ==
  /\ pc[n] = "awaiting"
  /\ pc' = [pc EXCEPT ![n] = "failed"]
  /\ last' = Last("runFilesFail", n, <<>>, <<>>, <<>>)
  /\ UNCHANGED <<cancelled, continuousRequests, simpleTestRunRequest,
                 testRunsByFile, runs, watch, pending, disposed>>

\* Cancel with a one-shot handler that leaves the marker alone
CancelKeepsMarker(n) ==
  /\ pc[n] \in {"awaiting", "watching", "returned", "failed"}
  /\ ~cancelled[n]
  /\ cancelled' = [cancelled EXCEPT ![n] = TRUE]
  /\ last' = Last("cancel", n, <<>>, <<>>, <<SimpleCall("cancelRun")>>)
  /\ UNCHANGED <<pc, continuousRequests, simpleTestRunRequest, testRunsByFile, runs,
                 watch, pending, disposed>>

\* Cancel with a continuous handler that stops the watch whatever is left
CancelAlwaysUnwatches(n) ==
  /\ pc[n] \in {"awaiting", "watching", "returned", "failed"}
  /\ ~cancelled[n]
  /\ cancelled' = [cancelled EXCEPT ![n] = TRUE]
  /\ IF RequestTable[n].continuous
     THEN /\ continuousRequests' = SelectSeq(continuousRequests, LAMBDA r : r # n)
          /\ watch' = NoWatch
          /\ last' = Last("cancel", n, <<>>, <<>>, <<SimpleCall("unwatchTests")>>)
          /\ UNCHANGED simpleTestRunRequest
     ELSE /\ simpleTestRunRequest' = NoRequest
          /\ last' = Last("cancel", n, <<>>, <<>>, <<SimpleCall("cancelRun")>>)
          /\ UNCHANGED <<continuousRequests, watch>>
  /\ UNCHANGED <<pc, testRunsByFile, runs, pending, disposed>>

\* the token of request n fires: the handler registered by runTests or by
\* watchContinuousTests runs
Cancel(n) ==
  /\ pc[n] \in {"awaiting", "watching", "returned", "failed"}
  /\ ~cancelled[n]
  /\ cancelled' = [cancelled EXCEPT ![n] = TRUE]
  /\ IF RequestTable[n].continuous
     THEN LET cont == SelectSeq(continuousRequests, LAMBDA r : r # n)
          IN /\ continuousRequests' = cont
             /\ watch' = IF Len(cont) = 0 THEN NoWatch ELSE watch
             /\ last' = Last("cancel", n, <<>>, <<>>,
                             IF Len(cont) = 0 THEN <<SimpleCall("unwatchTests")>>
                             ELSE <<>>)
             /\ UNCHANGED simpleTestRunRequest
     ELSE /\ simpleTestRunRequest' = NoRequest
          /\ last' = Last("cancel", n, <<>>, <<>>, <<SimpleCall("cancelRun")>>)
          /\ UNCHANGED <<continuousRequests, watch>>
  /\ UNCHANGED <<pc, testRunsByFile, runs, pending, disposed>>

\* the dispose callback of the constructor
Dispose ==
  /\ ~disposed
  /\ disposed' = TRUE
  /\ testRunsByFile' = EmptyMap
  /\ simpleTestRunRequest' = NoRequest
  /\ continuousRequests' = <<>>
  /\ last' = Last("dispose", 0, <<>>, <<>>,
                  <<SimpleCall("clearListeners"), SimpleCall("cancelRun")>>)
  /\ UNCHANGED <<pc, cancelled, runs, watch, pending>>

\* ------------------------------------------------------------------------
\* Event handlers (the listeners are gone once dispose has run)
\* ------------------------------------------------------------------------
Registry == [reg |-> testRunsByFile, runs |-> runs]

\* onWatcherRerun: !collecting && this.startTestRun(files)
OnWatcherRerun(files, collecting) ==
  LET st == IF collecting THEN Registry
            ELSE StartTestRun(files, NoRequest, simpleTestRunRequest,
                              continuousRequests, Registry)
  IN /\ ~disposed
     /\ Len(st.runs) <= MaxRuns
     /\ testRunsByFile' = st.reg
     /\ runs' = st.runs
     /\ last' = Last(IF collecting THEN "watcherRerunCollecting" ELSE "watcherRerun",
                     0, files, <<>>, <<>>)
     /\ UNCHANGED <<pc, cancelled, continuousRequests,
                    simpleTestRunRequest, watch, pending, disposed>>

\* the reports of onTaskUpdate for one [testId, result] pair
TaskUpdateReports(pack) ==
  IF ~Tracked(pack[1]) THEN <<>>
  ELSE IF GetTestRunByData(testRunsByFile, pack[1]) = NoRun THEN <<>>
  ELSE MarkResult(GetTestRunByData(testRunsByFile, pack[1]), pack[1], pack[2], "none")

\* OnTaskUpdate that leaves the whole event at the first task the tree does
\* not track
OnTaskUpdateStopsAtUnknown(packs) ==
  LET known == {k \in 1..Len(packs) : \A j \in 1..k : Tracked(packs[j][1])}
      handled == SubSeq(packs, 1, Cardinality(known))
  IN /\ ~disposed
     /\ last' = LastOf("taskUpdate", packs,
                       Flat([k \in 1..Len(handled) |-> TaskUpdateReports(handled[k])]),
                       <<>>)
     /\ UNCHANGED <<pc, cancelled, continuousRequests, simpleTestRunRequest,
                    testRunsByFile, runs, watch, pending, disposed>>

\* onTaskUpdate
OnTaskUpdate(packs) ==
  /\ ~disposed
  /\ last' = LastOf("taskUpdate", packs,
                    Flat([k \in 1..Len(packs) |-> TaskUpdateReports(packs[k])]),
                    <<>>)
  /\ UNCHANGED <<pc, cancelled, continuousRequests, simpleTestRunRequest,
                 testRunsByFile, runs, watch, pending, disposed>>

\* CollectedReports that maps the result of a task whatever its mode is
CollectedReportsIgnoresMode(task, mode, result) ==
  IF ~Tracked(task) THEN <<>>
  ELSE IF GetTestRunByData(testRunsByFile, task) = NoRun THEN <<>>
  ELSE MarkResult(GetTestRunByData(testRunsByFile, task), task, result, TaskType(task))

\* the reports of onCollected for one task of the collected files
CollectedReports(task, mode, result) ==
  IF ~Tracked(task) THEN <<>>
  ELSE IF GetTestRunByData(testRunsByFile, task) = NoRun THEN <<>>
  ELSE IF mode \in {"skip", "todo"}
  THEN <<Report(GetTestRunByData(testRunsByFile, task), task, "skipped", <<>>, 0, NoText)>>
  ELSE MarkResult(GetTestRunByData(testRunsByFile, task), task, result, TaskType(task))

\* onCollected; every task of the files carries the same mode and result
OnCollected(present, files, collecting, mode, result) ==
  LET tasks == GetTasks(files)
      merges == [k \in 1..Len(files) |-> Call("collectFile", FALSE, <<FsPath(files[k])>>, NoPattern)]
  IN /\ ~disposed
     /\ last' =
          IF ~present THEN Last("collectedNothing", 0, <<>>, <<>>, <<>>)
          ELSE IF collecting
          THEN LastOf("collectedCollecting", <<files, mode, result>>, <<>>, merges)
          ELSE LastOf("collected", <<files, mode, result>>,
                      Flat([k \in 1..Len(tasks) |-> CollectedReports(tasks[k], mode, result)]),
                      merges)
     /\ UNCHANGED <<pc, cancelled, continuousRequests, simpleTestRunRequest,
                    testRunsByFile, runs, watch, pending, disposed>>

\* the files.forEach of onFinished: the final result of each file, then
\* endTestRun; acc is [st, reports], and the end() of a run is listed among
\* the reports in the place where it is called
RECURSIVE Finalize(_, _, _)
Finalize(files, result, acc) ==
  IF files = <<>> THEN acc
  ELSE
    LET file == Head(files)
        testRun == IF Tracked(file) THEN GetTestRunByData(acc.st.reg, file) ELSE NoRun
    IN Finalize(Tail(files), result,
                IF testRun = NoRun THEN acc
                ELSE [st |-> EndTestRun(testRun, acc.st),
                      reports |-> acc.reports
                                    \o MarkResult(testRun, file, result, TaskType(file))
                                    \o <<Report(testRun, file, "end", <<>>, 0, NoText)>>])

\* how reportCoverage settles once it got past the 'FileCoverage' check
CoverageOutcomes == {"disabled", "configFails", "waitFails", "applyFails", "applied"}
CoverageFailures == {"configFails", "waitFails", "applyFails"}

\* the files of a finished event that reportCoverage applies the coverage to
CoveredFiles(files, reg) ==
  SelectSeq(files, LAMBDA f : Tracked(f) /\ GetTestRunByData(reg, f) # NoRun)

\* the calls of reportCoverage after getCoverageConfig settled, and the
\* warning of the catch block of onFinished
CoverageCalls(outcome, files, reg) ==
  LET applies == [k \in 1..Len(CoveredFiles(files, reg)) |->
                    Call("coverageApply", FALSE,
                         <<FsPath(CoveredFiles(files, reg)[k])>>, NoPattern)]
  IN CASE outcome = "disabled" -> <<>>
       [] outcome = "configFails" -> <<SimpleCall("showVitestError")>>
       [] outcome = "waitFails" ->
            <<SimpleCall("waitUntilExists"), SimpleCall("showVitestError")>>
       [] outcome = "applyFails" ->
            <<SimpleCall("waitUntilExists")>> \o applies \o <<SimpleCall("showVitestError")>>
       [] OTHER -> <<SimpleCall("waitUntilExists")>> \o applies

\* FinalizeAfter with a rejection of reportCoverage that is not caught
FinalizeAfterUncaught(outcome, files, result, st) ==
  IF outcome \in CoverageFailures THEN [st |-> st, reports |-> <<>>]
  ELSE Finalize(files, result, [st |-> st, reports |-> <<>>])

\* onFinished after reportCoverage settled: the rejection is caught, and the
\* files are finalized whatever the outcome was
FinalizeAfter(outcome, files, result, st) ==
  Finalize(files, result, [st |-> st, reports |-> <<>>])

\* onFinished when reportCoverage returns at once ('FileCoverage' is not in
\* vscode): nothing runs between the event and the finalization
OnFinished(files, result) ==
  LET done == FinalizeAfter("unsupported", files, result, Registry)
  IN /\ ~disposed
     /\ testRunsByFile' = done.st.reg
     /\ runs' = done.st.runs
     /\ last' = LastOf("finished",
                       [files |-> files, result |-> result, outcome |-> "unsupported",
                        reg |-> testRunsByFile],
                       done.reports, <<>>)
     /\ UNCHANGED <<pc, cancelled, continuousRequests, simpleTestRunRequest,
                    watch, pending, disposed>>

\* onFinished up to the await of getCoverageConfig inside reportCoverage; reg
\* is the registry the event found
OnFinishedSuspend(files, result) ==
  /\ ~disposed
  /\ Len(pending) < MaxPending
  /\ pending' = Append(pending, [files |-> files, result |-> result,
                                 reg |-> testRunsByFile])
  /\ last' = LastOf("finishedSuspend", [files |-> files, result |-> result],
                    <<>>, <<SimpleCall("getCoverageConfig")>>)
  /\ UNCHANGED <<pc, cancelled, continuousRequests, simpleTestRunRequest,
                 testRunsByFile, runs, watch, disposed>>

\* a suspended onFinished resumes after reportCoverage settled (resolved, or
\* rejected and caught) and finalizes its files
OnFinishedResume(i, outcome) ==
  LET files == pending[i].files
      done == FinalizeAfter(outcome, files, pending[i].result, Registry)
  IN /\ outcome = "applyFails" => CoveredFiles(files, testRunsByFile) # <<>>
     /\ testRunsByFile' = done.st.reg
     /\ runs' = done.st.runs
     /\ pending' = RemoveAt(pending, i)
     /\ last' = LastOf("finishedResume",
                       [files |-> files, result |-> pending[i].result,
                        outcome |-> outcome, reg |-> pending[i].reg],
                       done.reports, CoverageCalls(outcome, files, testRunsByFile))
     /\ UNCHANGED <<pc, cancelled, continuousRequests, simpleTestRunRequest,
                    watch, disposed>>

\* content.replace(/(?<!\r)\n/g, '\r\n')
RECURSIVE NormalizeNewlines(_, _)
NormalizeNewlines(content, prev) ==
  IF content = <<>> THEN <<>>
  ELSE (IF Head(content) = "\n" /\ prev # "\r" THEN <<"\r", "\n">> ELSE <<Head(content)>>)
       \o NormalizeNewlines(Tail(content), Head(content))

Contents == {<<"x", "\n">>, <<"\n", "x", "\r", "\n">>}

\* onConsoleLog; hasTask is FALSE when the log carries no taskId
OnConsoleLog(hasTask, taskId, content) ==
  LET testRun == IF hasTask /\ Tracked(taskId)
                 THEN GetTestRunByData(testRunsByFile, taskId) ELSE NoRun
  IN /\ ~disposed
     /\ last' = Last("consoleLog", 0, <<>>,
                     IF testRun = NoRun THEN <<>>
                     ELSE <<Report(testRun, taskId, "appendOutput",
                                   <<NormalizeNewlines(content, "")>>, 0, NoText)>>,
                     <<>>)
     /\ UNCHANGED <<pc, cancelled, continuousRequests, simpleTestRunRequest,
                    testRunsByFile, runs, watch, pending, disposed>>

\* ------------------------------------------------------------------------
\* Specification
\* ------------------------------------------------------------------------
\* Inputs of the commands and the events
RerunFiles ==
  {<<PathB, PathB>>, <<FolderMarker("W")>>, <<PathB, FolderMarker("D"), PathA>>}
FailErrors == Result("fail", Errors(<<Err(1), Err(2)>>))
Pass == Result("pass", NoErrors)
TaskPacks ==
  {<<<<"S1", FailErrors>>>>, <<<<"X", Pass>>, <<"T2", Pass>>>>, <<<<"T1", NoResult>>>>}
CollectedInputs ==
  {<<FALSE, <<>>, FALSE, "run", NoResult>>,
   <<TRUE, <<"A">>, TRUE, "run", NoResult>>,
   <<TRUE, <<"A", "B">>, FALSE, "run", FailErrors>>,
   <<TRUE, <<"B">>, FALSE, "skip", Pass>>}
FinishedInputs == {<<<<"A">>, FailErrors>>, <<<<"X", "B", "A">>, Pass>>}
ConsoleInputs ==
  {<<FALSE, "X", <<"x", "\n">>>>, <<TRUE, "T1", <<"\n", "x", "\r", "\n">>>>,
   <<TRUE, "X", <<"x", "\n">>>>}

\* the requests handed to runCoverage: a one-shot and a continuous one
CoverageRequestIds == {2, 4}

Next ==
  /\ steps < MaxSteps
  /\ steps' = steps + 1
  /\ \/ \E n \in RequestIds : RunTests(n)
     \/ \E n \in CoverageRequestIds : RunCoverage(n)
     \/ \E n \in RequestIds : EnableCoverageReturn(n)
     \/ \E n \in RequestIds : EnableCoverageFail(n)
     \/ \E n \in RequestIds : RunFilesReturn(n)
     \/ \E n \in RequestIds : RunFilesFail(n)
     \/ \E n \in RequestIds : Cancel(n)
     \/ Dispose
     \/ \E files \in RerunFiles, collecting \in BOOLEAN : OnWatcherRerun(files, collecting)
     \/ \E packs \in TaskPacks : OnTaskUpdate(packs)
     \/ \E in \in CollectedInputs : OnCollected(in[1], in[2], in[3], in[4], in[5])
     \/ \E in \in FinishedInputs : OnFinished(in[1], in[2])
     \/ \E in \in FinishedInputs : OnFinishedSuspend(in[1], in[2])
     \/ \E i \in 1..Len(pending), outcome \in CoverageOutcomes :
          OnFinishedResume(i, outcome)
     \/ \E in \in ConsoleInputs : OnConsoleLog(in[1], in[2], in[3])

Spec == Init /\ [][Next]_vars

\* the continuous requests without an inclusion filter
WatchAllRequestIds == {n \in RequestIds : RequestTable[n] = Request(NoInclude, TRUE)}

\* The resolver and the result mapper on their inputs: every selection of at
\* most MaxSelection items, and every result snapshot with at most MaxErrors
\* errors, delivered while every file has a run
Selections == UNION {[1..n -> Items] : n \in 0..MaxSelection}
ErrorLists ==
  {NoErrors} \cup
  UNION {{Errors(list) : list \in [1..n -> {Err(1), Err(2)}]} : n \in 0..MaxErrors}
Snapshots ==
  {NoResult} \cup
  {Result(state, errors) :
     state \in {"pass", "skip", "todo", "only", "run", "fail", "queued"},
     errors \in ErrorLists}
SnapshotPacks == {<<<<id, result>>>> : id \in {"T1", "T2", "S1"}, result \in Snapshots}
SnapshotFiles ==
  {<<TRUE, <<file>>, FALSE, mode, result>> :
     file \in {"A", "B"}, mode \in {"run", "skip"}, result \in Snapshots}

\* the part of runTests that resolves the selection of a one-shot request into
\* the arguments of api.runFiles
ResolveSelection(tests) ==
  /\ last' = LastOf("resolve", tests, <<>>,
                    IF Len(tests) = 0
                    THEN <<Call("runFiles", TRUE, <<>>, NoPattern)>>
                    ELSE <<Call("runFiles", FALSE, GetTestFiles(tests),
                                FormatTestPattern(tests))>>)
  /\ UNCHANGED <<pc, cancelled, continuousRequests, simpleTestRunRequest,
                 testRunsByFile, runs, watch, pending, disposed>>

\* the state after runTests of the continuous request without include and a
\* watcher-rerun of the workspace folder: every file has a run
InitRunning ==
  LET n == CHOOSE k \in WatchAllRequestIds : TRUE
      files == <<FolderMarker("W")>>
      st == StartTestRun(files, NoRequest, NoRequest, <<n>>,
                         [reg |-> EmptyMap, runs |-> <<>>])
  IN /\ pc = [k \in RequestIds |-> IF k = n THEN "watching" ELSE "idle"]
     /\ cancelled = [k \in RequestIds |-> FALSE]
     /\ continuousRequests = <<n>>
     /\ simpleTestRunRequest = NoRequest
     /\ testRunsByFile = st.reg
     /\ runs = st.runs
     /\ watch = WatchAll
     /\ pending = <<>>
     /\ disposed = FALSE
     /\ last = Last("watcherRerun", 0, files, <<>>, <<>>)
     /\ steps = 0

\* one input per behaviour: the events handled here leave the program state
\* as it is
NextFunctions ==
  /\ steps = 0
  /\ steps' = steps + 1
  /\ \/ \E tests \in Selections : ResolveSelection(tests)
     \/ \E packs \in SnapshotPacks : OnTaskUpdate(packs)
     \/ \E in \in SnapshotFiles : OnCollected(in[1], in[2], in[3], in[4], in[5])

SpecFunctions == InitRunning /\ [][NextFunctions]_vars

\* The interleavings of the finished handlers with the other event handlers
\* under one continuous request without an inclusion filter, explored deeper,
\* on a host that has 'FileCoverage': every finished handler awaits
\* getCoverageConfig

NextFinished ==
  /\ steps < MaxFinishedSteps
  /\ steps' = steps + 1
  /\ \/ \E n \in WatchAllRequestIds : RunTests(n)
     \/ \E n \in WatchAllRequestIds : Cancel(n)
     \/ Dispose
     \/ \E files \in RerunFiles : OnWatcherRerun(files, FALSE)
     \/ \E packs \in TaskPacks : OnTaskUpdate(packs)
     \/ \E in \in CollectedInputs : OnCollected(in[1], in[2], in[3], in[4], in[5])
     \/ \E in \in FinishedInputs : OnFinishedSuspend(in[1], in[2])
     \/ \E i \in 1..Len(pending), outcome \in CoverageOutcomes :
          OnFinishedResume(i, outcome)
     \/ \E in \in ConsoleInputs : OnConsoleLog(in[1], in[2], in[3])

SpecFinished == Init /\ [][NextFinished]_vars

\* ------------------------------------------------------------------------
\* Vocabulary of the claims
\* ------------------------------------------------------------------------
RunIds == 1..Len(runs)
\* a run that startTestRun created and on which end() was not called
Active(i) == ~runs[i].ended
Registered(f) == f \in DOMAIN testRunsByFile
\* the runs the step from the unprimed to the primed state created
NewRuns == (Len(runs) + 1)..Len(runs')
EventOps ==
  {"watcherRerun", "watcherRerunCollecting", "taskUpdate", "collectedNothing",
   "collectedCollecting", "collected", "finished", "finishedSuspend", "finishedResume"}

\* C1: in every reachable state each file path has at most one active run,
\* a run that startTestRun created and that was not ended.
C1_AtMostOneActiveRunPerFile ==
  \A i, j \in RunIds :
    (runs[i].file = runs[j].file /\ Active(i) /\ Active(j)) => i = j

\* a file whose earlier run was ended has a second, active run
C1_Witness ==
  \E i, j \in RunIds :
    /\ runs[i].file = runs[j].file
    /\ runs[i].ended
    /\ Active(j)
    /\ Registered(runs[j].file)

\* C2: a registry entry is removed only together with the end of its run and
\* is never replaced by another run, in every operation; no run leaves the
\* registry without having been ended.
C2_EntryLeavesOnlyEnded ==
  [][\A f \in DOMAIN testRunsByFile :
       (~(f \in DOMAIN testRunsByFile') \/ testRunsByFile'[f] # testRunsByFile[f])
         => runs'[testRunsByFile[f]].ended]_vars

\* C3: when the runFiles call of a one-shot runTests returns, successfully or
\* with a failure, the active one-shot request marker is null.
C3_MarkerClearedWhenRunFilesSettles ==
  last.op \in {"runFilesReturn", "runFilesFail"} => simpleTestRunRequest = NoRequest

\* C4: after any registrations and cancellations of continuous requests the
\* watch in force is the union of the inclusions of the active registrations,
\* everything when one of them has no inclusion filter, none when none is left.
C4_WatchIsUnionOfActive ==
  LET include == Flat([k \in 1..Len(continuousRequests) |->
                         RequestTable[continuousRequests[k]].include.items])
  IN ~disposed =>
       IF Len(continuousRequests) = 0 THEN ~watch.active
       ELSE IF \E k \in 1..Len(continuousRequests) :
                 HasNoInclude(RequestTable[continuousRequests[k]].include)
       THEN watch = WatchAll
       ELSE /\ watch.active
            /\ ~watch.all
            /\ Range(watch.files) = Range(GetTestFiles(include))

\* C5: a fail result of a suite-typed task is never reported as failed on the
\* suite's item, on any event path that delivers it.
C5_SuiteFailNeverFailed ==
  \A k \in 1..Len(last.reports) :
    last.reports[k].kind = "failed" => TaskType(last.reports[k].item) # "suite"

\* a one-shot request is the only request handed to runTests and its token
\* has fired: every event now delivered belongs to the cancelled execution
OneShotCancelledAlone ==
  \E n \in RequestIds :
    ~RequestTable[n].continuous /\ cancelled[n] /\ Issued = {n}

CancelledOneShotStep ==
  /\ last'.op = "cancel"
  /\ ~RequestTable[last'.req].continuous
  /\ cancelled'[last'.req]
  /\ ~cancelled[last'.req]

\* C6 as stated: after the token of a one-shot request fired the marker is
\* null and cancelRun was issued, and every later event of the cancelled
\* execution creates no run and makes no report.
C6_EventsAfterCancelAreNoOps ==
  [][/\ CancelledOneShotStep =>
          /\ simpleTestRunRequest' = NoRequest
          /\ SimpleCall("cancelRun") \in Range(last'.calls)
     /\ (OneShotCancelledAlone /\ last'.op \in EventOps) =>
          /\ Len(runs') = Len(runs)
          /\ last'.reports = <<>>]_vars

\* C6 amended: after the token of a one-shot request fired the marker is null
\* and cancelRun was issued; a later event creates no run while the marker is
\* null and no continuous registration exists, and it reports only into the
\* run that is registered for the file of the reported item.
C6_EventsAfterCancelReportIntoRegisteredRuns ==
  [][/\ CancelledOneShotStep =>
          /\ simpleTestRunRequest' = NoRequest
          /\ SimpleCall("cancelRun") \in Range(last'.calls)
     /\ (last'.op \in EventOps /\ simpleTestRunRequest = NoRequest
           /\ continuousRequests = <<>>) =>
          Len(runs') = Len(runs)
     /\ last'.op \in EventOps =>
          \A k \in 1..Len(last'.reports) :
            /\ Registered(FsPath(last'.reports[k].item))
            /\ testRunsByFile[FsPath(last'.reports[k].item)] = last'.reports[k].run]_vars

\* a task-update reports into a run after the only request, a one-shot one,
\* was cancelled
C6_Witness ==
  /\ OneShotCancelledAlone
  /\ simpleTestRunRequest = NoRequest
  /\ last.op = "taskUpdate"
  /\ last.reports # <<>>

\* C7: startTestRun works for the explicitly supplied request, else for the
\* active one-shot request, else for the merged continuous request; with none
\* of them it creates no run and leaves the registry unchanged.
C7_EffectiveRequestPriority ==
  [][last'.op = "watcherRerun" =>
       LET cont == continuousRequests
           noFilter == {k \in 1..Len(cont) : HasNoInclude(RequestTable[cont[k]].include)}
       IN /\ simpleTestRunRequest.kind # "none" =>
               \A i \in NewRuns : runs'[i].request = simpleTestRunRequest
          /\ (simpleTestRunRequest.kind = "none" /\ noFilter # {}) =>
               \A i \in NewRuns :
                 runs'[i].request = Req(cont[CHOOSE k \in noFilter : \A j \in noFilter : k <= j])
          /\ (simpleTestRunRequest.kind = "none" /\ cont # <<>> /\ noFilter = {}) =>
               \A i \in NewRuns :
                 /\ runs'[i].request.kind = "merged"
                 /\ runs'[i].request.id = Len(runs) + 1
                 /\ runs'[i].request.primary = cont[1]
                 /\ runs'[i].request.include =
                      Incl(Flat([k \in 1..Len(cont) |-> RequestTable[cont[k]].include.items]))
          /\ (simpleTestRunRequest.kind = "none" /\ cont = <<>>) =>
               /\ NewRuns = {}
               /\ testRunsByFile' = testRunsByFile]_vars

\* a watcher-rerun made a run for the one-shot request although a continuous
\* registration exists
C7_Witness ==
  /\ last.op = "watcherRerun"
  /\ simpleTestRunRequest.kind = "req"
  /\ continuousRequests # <<>>
  /\ runs # <<>>
  /\ runs[Len(runs)].request = simpleTestRunRequest
  /\ Active(Len(runs))

\* the files a file list names, directly or below a folder marker
Named(files) ==
  {f \in FilePaths :
     \E k \in 1..Len(files) :
       \/ files[k] = f
       \/ IsFolderMarker(files[k]) /\ f \in Range(GetTestFilesInFolder(files[k]))}

\* C8: for an effective request startTestRun creates and registers a run for
\* a file exactly when the file has no active run and is reachable under the
\* request's inclusion filter, every file being reachable when the request
\* has no inclusion (include absent or empty).
C8_RunCreatedExactlyWhenReachable ==
  [][last'.op = "watcherRerun" =>
       LET request == EffectiveRequest(NoRequest, simpleTestRunRequest,
                                       continuousRequests, Len(runs) + 1)
           include == IncludeOf(request)
           Reachable(f) == HasNoInclude(include) \/ IsFileIncluded(f, include.items)
           HasActiveRun(f) == \E i \in RunIds : runs[i].file = f /\ Active(i)
           Created(f) == \E i \in NewRuns :
                           /\ runs'[i].file = f
                           /\ f \in DOMAIN testRunsByFile'
                           /\ testRunsByFile'[f] = i
       IN request.kind # "none" =>
            \A f \in Named(last'.files) :
              Created(f) <=> (~HasActiveRun(f) /\ Reachable(f))]_vars

\* C9: starting a run is idempotent: a call creates at most one run for a
\* file, none for a file that has a registered run, and a file list that
\* names a file twice leaves exactly one registered run for it.
C9_StartIsIdempotent ==
  [][last'.op = "watcherRerun" =>
       \A f \in FilePaths :
         LET new == {i \in NewRuns : runs'[i].file = f}
         IN /\ Cardinality(new) <= 1
            /\ Registered(f) =>
                 /\ new = {}
                 /\ f \in DOMAIN testRunsByFile'
                 /\ testRunsByFile'[f] = testRunsByFile[f]
            /\ new # {} =>
                 /\ f \in DOMAIN testRunsByFile'
                 /\ testRunsByFile'[f] \in new]_vars

\* a watcher-rerun that names a file twice left one run for it
C9_Witness ==
  /\ last.op = "watcherRerun"
  /\ last.files = <<PathB, PathB>>
  /\ Registered(PathB)
  /\ Cardinality({i \in RunIds : runs[i].file = PathB}) = 1

\* C10: after endTestRun the run's file maps to no run and the run is ended;
\* a later startTestRun for that file under an effective request that
\* includes it creates a new run, distinct from the ended one.
C10_FreshRunAfterEnd ==
  [][/\ \A i \in RunIds :
          (Active(i) /\ runs'[i].ended) => ~(runs[i].file \in DOMAIN testRunsByFile')
     /\ \A f \in DOMAIN testRunsByFile' : ~runs'[testRunsByFile'[f]].ended
     /\ last'.op = "watcherRerun" =>
          LET request == EffectiveRequest(NoRequest, simpleTestRunRequest,
                                          continuousRequests, Len(runs) + 1)
          IN /\ SubSeq(runs', 1, Len(runs)) = runs
             /\ \A f \in Named(last'.files) :
                  (request.kind # "none" /\ ~Registered(f)
                     /\ ~Skipped(f, IncludeOf(request))) =>
                    /\ f \in DOMAIN testRunsByFile'
                    /\ testRunsByFile'[f] \in NewRuns
                    /\ runs'[testRunsByFile'[f]].file = f
                    /\ ~runs'[testRunsByFile'[f]].ended]_vars

\* a watcher-rerun registered a second run for a file whose first run was ended
C10_Witness ==
  /\ last.op = "watcherRerun"
  /\ Len(runs) = 2
  /\ runs[1].file = runs[2].file
  /\ runs[1].ended
  /\ Active(2)
  /\ Registered(runs[2].file)
  /\ testRunsByFile[runs[2].file] = 2

\* the calls of the step that show an error to the user
Warnings(calls) == {k \in 1..Len(calls) : calls[k].op = "showVitestError"}
\* the reports of the step that were made on run r, in order
ReportsOn(reports, r) == SelectSeq(reports, LAMBDA x : x.run = r)

\* C11: whatever the outcome of coverage correlation, the finished handler
\* gives every listed file that has a registered run its final file-level
\* result, ends its run and removes it from the registry; a coverage failure
\* shows one warning and changes nothing else.
C11_FinalizationSurvivesCoverage ==
  [][last'.op \in {"finished", "finishedResume"} =>
       LET in == last'.input
           listed == {f \in Range(in.files) :
                        Tracked(f) /\ FsPath(f) \in DOMAIN testRunsByFile}
       IN /\ \A f \in listed :
               LET r == testRunsByFile[FsPath(f)]
               IN /\ runs'[r].ended
                  /\ ~(FsPath(f) \in DOMAIN testRunsByFile')
                  /\ ReportsOn(last'.reports, r) =
                       MarkResult(r, f, in.result, "suite")
                         \o <<Report(r, f, "end", <<>>, 0, NoText)>>
          /\ Cardinality(Warnings(last'.calls)) =
               (IF in.outcome \in CoverageFailures THEN 1 ELSE 0)
          /\ \A p \in DOMAIN testRunsByFile :
               (\A f \in listed : FsPath(f) # p) =>
                 /\ p \in DOMAIN testRunsByFile'
                 /\ testRunsByFile'[p] = testRunsByFile[p]
                 /\ runs'[testRunsByFile[p]] = runs[testRunsByFile[p]]
          /\ UNCHANGED <<simpleTestRunRequest, continuousRequests, watch>>]_vars

\* a finished handler whose coverage correlation failed ended the run of a
\* listed file and showed the warning
C11_Witness ==
  /\ last.op = "finishedResume"
  /\ last.input.outcome \in CoverageFailures
  /\ Warnings(last.calls) # {}
  /\ \E k \in 1..Len(last.reports) :
       /\ last.reports[k].kind = "end"
       /\ runs[last.reports[k].run].ended

\* C12: a task-update pair whose task id the tree does not track, or whose
\* item belongs to a file without a registered run, makes no report and
\* changes neither the registry nor the request state; the other pairs of
\* the event are still processed.
C12_UnknownPairsAreSkipped ==
  [][last'.op = "taskUpdate" =>
       LET packs == last'.input
           Dropped(k) == \/ ~Tracked(packs[k][1])
                         \/ ~(FsPath(packs[k][1]) \in DOMAIN testRunsByFile)
           Kept == {k \in 1..Len(packs) : ~Dropped(k)}
       IN /\ UNCHANGED <<testRunsByFile, runs, simpleTestRunRequest,
                         continuousRequests, watch, pending>>
          /\ \A j \in 1..Len(last'.reports) :
               \E k \in Kept :
                 /\ last'.reports[j].item = packs[k][1]
                 /\ last'.reports[j].run = testRunsByFile[FsPath(packs[k][1])]
          /\ \A k \in Kept :
               MarkResult(testRunsByFile[FsPath(packs[k][1])], packs[k][1],
                          packs[k][2], "none") # <<>>
                 => \E j \in 1..Len(last'.reports) : last'.reports[j].item = packs[k][1]]_vars

\* a task-update whose first pair names an untracked task reported its second
\* pair into the run of that pair's file
C12_Witness ==
  /\ last.op = "taskUpdate"
  /\ Len(last.input) = 2
  /\ ~Tracked(last.input[1][1])
  /\ Len(last.reports) = 1
  /\ last.reports[1].item = last.input[2][1]
  /\ Registered(FsPath(last.input[2][1]))

\* C13: a collected event merges its files into the explorer tree; with the
\* collecting flag set it reports nothing, and with the flag clear it reports,
\* for every task of the files whose file has a registered run, skipped when
\* the task's mode is skip or todo and else what the result mapper makes of
\* the task's result.
C13_CollectedMergesThenReports ==
  [][last'.op \in {"collected", "collectedCollecting"} =>
       LET files == last'.input[1]
           mode == last'.input[2]
           result == last'.input[3]
           tasks == Range(GetTasks(files))
           About(t) == SelectSeq(last'.reports, LAMBDA x : x.item = t)
           RunOf(t) == testRunsByFile[FsPath(t)]
       IN /\ Len(last'.calls) = Len(files)
          /\ \A k \in 1..Len(files) :
               last'.calls[k] = Call("collectFile", FALSE, <<FsPath(files[k])>>, NoPattern)
          /\ last'.op = "collectedCollecting" => last'.reports = <<>>
          /\ last'.op = "collected" =>
               /\ \A j \in 1..Len(last'.reports) : last'.reports[j].item \in tasks
               /\ \A t \in tasks :
                    About(t) =
                      (IF ~Registered(FsPath(t)) THEN <<>>
                       ELSE IF mode \in {"skip", "todo"}
                       THEN <<Report(RunOf(t), t, "skipped", <<>>, 0, NoText)>>
                       ELSE MarkResult(RunOf(t), t, result, TaskType(t)))
          /\ UNCHANGED <<testRunsByFile, runs, simpleTestRunRequest,
                         continuousRequests, watch, pending>>]_vars

\* a collected event reported skipped for the tasks of a file with a run,
\* whose result was a pass
C13_Witness ==
  /\ last.op = "collected"
  /\ last.input[2] = "skip"
  /\ last.input[3].state = "pass"
  /\ last.reports # <<>>
  /\ \A j \in 1..Len(last.reports) : last.reports[j].kind = "skipped"

\* the calls of the step that stop the watch
Unwatches(calls) == {k \in 1..Len(calls) : calls[k].op = "unwatchTests"}

\* C14: when the token of a continuous request fires the request leaves the
\* continuous set, and unwatchTests is issued exactly when the set is empty
\* after the removal; it is never issued while a registration remains.
C14_UnwatchExactlyWhenNoneLeft ==
  [][/\ (last'.op = "cancel" /\ RequestTable[last'.req].continuous
           /\ cancelled'[last'.req] /\ ~cancelled[last'.req]) =>
          /\ ~(last'.req \in Range(continuousRequests'))
          /\ Range(continuousRequests') = Range(continuousRequests) \ {last'.req}
          /\ Cardinality(Unwatches(last'.calls)) =
               (IF continuousRequests' = <<>> THEN 1 ELSE 0)
     /\ Unwatches(last'.calls) # {} => continuousRequests' = <<>>]_vars

\* one of two continuous requests was cancelled: the other one is still
\* registered and no unwatchTests was issued
C14_Witness ==
  /\ last.op = "cancel"
  /\ RequestTable[last.req].continuous
  /\ cancelled[last.req]
  /\ continuousRequests # <<>>
  /\ Unwatches(last.calls) = {}
  /\ watch.active

\* the calls of the step that run or watch tests
Executions(calls) == {k \in 1..Len(calls) : calls[k].op \in {"runFiles", "watchTests"}}

\* C15: runCoverage first calls enableCoverage; when that fails it shows one
\* error and returns without runFiles or watchTests and without a change of
\* the marker or the continuous set; when it succeeds it goes on as runTests
\* does for the same request.
C15_CoverageRunsOnlyWhenEnabled ==
  [][/\ last'.op = "runCoverage" =>
          /\ last'.calls = <<SimpleCall("enableCoverage")>>
          /\ pc'[last'.req] = "enabling"
          /\ UNCHANGED <<simpleTestRunRequest, continuousRequests, watch>>
     /\ last'.op = "enableCoverageFail" =>
          /\ pc[last'.req] = "enabling"
          /\ Cardinality(Warnings(last'.calls)) = 1
          /\ Executions(last'.calls) = {}
          /\ ~(pc'[last'.req] \in {"awaiting", "watching"})
          /\ UNCHANGED <<simpleTestRunRequest, continuousRequests, watch,
                         testRunsByFile, runs>>
     /\ \A n \in RequestIds :
          (pc[n] = "enabling" /\ last'.op = "runTests" /\ last'.req = n) =>
            LET tests == RequestTable[n].include.items
            IN /\ Warnings(last'.calls) = {}
               /\ Len(last'.calls) = 1
               /\ IF RequestTable[n].continuous
                  THEN /\ n \in Range(continuousRequests')
                       /\ last'.calls[1].op = "watchTests"
                       /\ pc'[n] = "watching"
                       /\ UNCHANGED simpleTestRunRequest
                  ELSE /\ simpleTestRunRequest' = Req(n)
                       /\ pc'[n] = "awaiting"
                       /\ last'.calls[1] =
                            (IF tests = <<>> THEN Call("runFiles", TRUE, <<>>, NoPattern)
                             ELSE Call("runFiles", FALSE, GetTestFiles(tests),
                                       FormatTestPattern(tests)))
                       /\ UNCHANGED <<continuousRequests, watch>>
     /\ \A n \in RequestIds :
          (pc'[n] \in {"awaiting", "watching"} /\ pc[n] # pc'[n]) =>
            pc[n] \in {"idle", "enabling"} /\ last'.op = "runTests"]_vars

\* enableCoverage failed for a request while the one-shot marker held another
\* request: the marker is still that request and nothing was run
C15_Witness ==
  /\ last.op = "enableCoverageFail"
  /\ pc[last.req] = "coverageFailed"
  /\ simpleTestRunRequest.kind = "req"
  /\ simpleTestRunRequest.id # last.req
  /\ Executions(last.calls) = {}

\* what the claim C16 expects of one snapshot of a leaf task: the kind of the
\* report, the number of its messages and its duration; <<>> is no report
LeafOutcome(result) ==
  IF ~result.present THEN <<"started", 0, 0>>
  ELSE CASE result.state = "pass" -> <<"passed", 0, result.duration>>
         [] result.state \in {"skip", "todo"} -> <<"skipped", 0, 0>>
         [] result.state \in {"only", "run"} -> <<"started", 0, 0>>
         [] result.state = "fail" ->
              <<"failed", Len(result.errors.list), result.duration>>
         [] OTHER -> <<>>

\* the snapshots of leaf tasks the step delivered to the result mapper
Delivered ==
  IF last'.op = "taskUpdate"
  THEN {<<last'.input[k][1], last'.input[k][2]>> : k \in 1..Len(last'.input)}
  ELSE IF last'.op = "collected" /\ ~(last'.input[2] \in {"skip", "todo"})
  THEN {<<t, last'.input[3]>> : t \in Range(GetTasks(last'.input[1]))}
  ELSE {}

\* C16: the result mapper makes one report per delivered snapshot of a leaf
\* task, fixed by the snapshot alone: no result -> started; pass -> passed
\* with the duration; skip, todo -> skipped; only, run -> started; fail ->
\* failed with one message per error and the duration; else no report.
C16_LeafReportFollowsSnapshot ==
  [][\A d \in Delivered :
       (Tracked(d[1]) /\ TaskType(d[1]) = "test" /\ Registered(FsPath(d[1]))) =>
         LET about == SelectSeq(last'.reports, LAMBDA x : x.item = d[1])
             outcome == LeafOutcome(d[2])
         IN IF outcome = <<>> THEN about = <<>>
            ELSE /\ Len(about) = 1
                 /\ about[1].kind = outcome[1]
                 /\ Len(about[1].messages) = outcome[2]
                 /\ about[1].duration = outcome[3]
                 /\ about[1].run = testRunsByFile[FsPath(d[1])]]_vars

\* a failed snapshot with two errors of a leaf task was reported as failed
\* with two messages
C16_Witness ==
  /\ last.op = "taskUpdate"
  /\ TaskType(last.input[1][1]) = "test"
  /\ last.input[1][2].state = "fail"
  /\ Len(last.input[1][2].errors.list) = 2
  /\ Len(last.reports) = 1
  /\ last.reports[1].kind = "failed"
  /\ Len(last.reports[1].messages) = 2

\* the expressions of the cases, joined by '|'
RECURSIVE JoinedExpressions(_)
JoinedExpressions(cases) ==
  IF Len(cases) = 1 THEN NamePattern(cases[1])
  ELSE NamePattern(cases[1]) \o <<"|">> \o JoinedExpressions(Tail(cases))

\* C17: the resolved name pattern is absent when no selected item is a test
\* case, and else it is the expressions of the selected cases, in selection
\* order, joined by '|'; files and folders add nothing to it.
C17_PatternOfSelectedCases ==
  last.op = "resolve" =>
    LET cases == SelectSeq(last.input, LAMBDA i : ItemKind(i) = "case")
        pattern == last.calls[1].pattern
    IN IF cases = <<>> THEN ~pattern.present
       ELSE /\ pattern.present
            /\ pattern.text = JoinedExpressions(cases)

\* a selection of a folder or file and two cases gave the two expressions
C17_Witness ==
  /\ last.op = "resolve"
  /\ Len(last.input) = 3
  /\ ItemKind(last.input[1]) = "case"
  /\ ItemKind(last.input[2]) \in {"file", "folder"}
  /\ ItemKind(last.input[3]) = "case"
  /\ last.input[1] # last.input[3]
  /\ last.calls[1].pattern.text = NamePattern(last.input[1]) \o <<"|">> \o NamePattern(last.input[3])

\* C18: while a one-shot runTests call awaits runFiles and its token has not
\* fired, the one-shot request marker is that call's request, also when
\* another one-shot call overlaps it.
C18_MarkerIsTheAwaitingRequest ==
  \A n \in RequestIds :
    (~RequestTable[n].continuous /\ pc[n] = "awaiting" /\ ~cancelled[n] /\ ~disposed)
      => simpleTestRunRequest = Req(n)

\* C19: the run a watcher-rerun registers for a file stays registered until
\* the finished event of that execution is handled: a finished handler that
\* was suspended in coverage correlation ends, when it resumes, only runs
\* that were registered when its event arrived.
C19_ResumeEndsOnlyRunsItsEventFound ==
  [][last'.op = "finishedResume" =>
       \A r \in RunIds :
         (Active(r) /\ runs'[r].ended) =>
           \E p \in DOMAIN last'.input.reg : last'.input.reg[p] = r]_vars

\* the places of the reports of the step where end() is called on run r
EndsOf(reports, r) ==
  {k \in 1..Len(reports) : reports[k].run = r /\ reports[k].kind = "end"}

\* C20: under every interleaving of the handlers end() is called at most once
\* on each run, and no report is made on a run after its end().
C20_EndOnceAndNothingAfter ==
  [][/\ \A k \in 1..Len(last'.reports) :
          /\ last'.reports[k].run \in RunIds
          /\ Active(last'.reports[k].run)
          /\ \A j \in EndsOf(last'.reports, last'.reports[k].run) : k <= j
     /\ \A r \in RunIds :
          /\ Cardinality(EndsOf(last'.reports, r)) <= 1
          /\ runs'[r].ended <=> (runs[r].ended \/ EndsOf(last'.reports, r) # {})]_vars

\* two finished handlers were suspended for a file while its run was
\* registered; the first one to resume ended the run, and the second one
\* resumed after that and ended nothing
C20_Witness ==
  /\ last.op = "finishedResume"
  /\ pending = <<>>
  /\ last.reports = <<>>
  /\ \E p \in DOMAIN last.input.reg :
       /\ runs[last.input.reg[p]].ended
       /\ \E f \in Range(last.input.files) : Tracked(f) /\ FsPath(f) = p

====
